---------------------------- MODULE Spec2Model ----------------------------
(***************************************************************************)
(* Model of the fee calculation and tip limiting utilities (lib/utils) and *)
(* of the submit handling of the LeaderboardForm component.                *)
(*                                                                         *)
(* JavaScript numbers are IEEE-754 doubles.  The fee arithmetic multiplies *)
(* by the double FEE_PERCENT / 100, which is not the rational 1/100, so    *)
(* the model carries doubles as a 53-bit significand and a binary exponent *)
(* and rounds to nearest, ties to even, as the language does.              *)
(***************************************************************************)
EXTENDS Integers, Sequences, FiniteSets

\* lib/constants (imported by lib/utils): values as given in the specification
FEE_PERCENT == 1
MINIMUM_FEE_SATS == 2
MAX_TIP_SATS == 1000
MAX_TIPS_WITHDRAWABLE == 3

\* bounds of the model
MaxAmount == 10001
MaxStep == 2
MaxTips == 4
MaxLiveTips == 3
MaxSubmits == 3

\* amounts of the tips handed to limitTips
TipAmounts == {0, 200, 300, 400, 500, 1000, 2000}

\* titles typed into the form
Titles == {"", "a", "b", "ab"}

VARIABLES
  \* calculateFee: the last two calls of a caller
  amount, fee, prevAmount, prevFee,
  \* limitTips: the caller's array, the array as it was passed, the local
  \* limitedTips, the position in the function, which call this is, and
  \* what the first call returned
  tips, input, limitedTips, pc, round, firstResult,
  \* LeaderboardForm: the title field, the isSubmitting state, the calls of
  \* the onSubmit prop that are pending, the calls started, the last event
  title, isSubmitting, inflight, started, lastEvent

feeVars == <<amount, fee, prevAmount, prevFee>>
tipVars == <<tips, input, limitedTips, pc, round, firstResult>>
formVars == <<title, isSubmitting, inflight, started, lastEvent>>
vars == <<feeVars, tipVars, formVars>>

---------------------------------------------------------------------------
(* IEEE-754 binary64 arithmetic on the values the fee calculation meets.   *)
(* A bit sequence is least significant bit first.  A double is             *)
(* [bits |-> 53 bits, exp |-> e], of value (sum of bits[i] * 2^(i-1)) * 2^e,*)
(* with bits[53] = 1, or DoubleZero.                                       *)

MantissaBits == 53

Max(a, b) == IF a > b THEN a ELSE b

RECURSIVE Pow2(_)
Pow2(n) == IF n = 0 THEN 1 ELSE 2 * Pow2(n - 1)

RECURSIVE BitsToInt(_)
BitsToInt(bits) ==
  IF bits = <<>> THEN 0 ELSE Head(bits) + 2 * BitsToInt(Tail(bits))

RECURSIVE IntToBits(_)
IntToBits(n) == IF n = 0 THEN <<>> ELSE <<n % 2>> \o IntToBits(n \div 2)

Zeros(n) == [i \in 1..n |-> 0]

DoubleZero == [bits |-> Zeros(MantissaBits), exp |-> 0]

\* bits + 1; the carry out of the top bit is a bit more
RECURSIVE Increment(_)
Increment(bits) ==
  IF bits = <<>> THEN <<1>>
  ELSE IF Head(bits) = 0 THEN <<1>> \o Tail(bits)
  ELSE <<0>> \o Increment(Tail(bits))

\* the exact value bits * 2^e (top bit 1) rounded to 53 bits, nearest, ties to even
RoundNearestEven(bits, e) ==
  LET len == Len(bits)
      s == len - MantissaBits
  IN IF s <= 0
     THEN [bits |-> Zeros(-s) \o bits, exp |-> e + s]
     ELSE LET kept == SubSeq(bits, s + 1, len)
              guard == bits[s]
              sticky == \E i \in 1..(s - 1) : bits[i] = 1
              roundUp == guard = 1 /\ (sticky \/ kept[1] = 1)
              up == Increment(kept)
          IN IF ~roundUp THEN [bits |-> kept, exp |-> e + s]
             ELSE IF Len(up) = MantissaBits THEN [bits |-> up, exp |-> e + s]
             ELSE [bits |-> Tail(up), exp |-> e + s + 1]

\* the binary digits of p / q after the point, from digit `pos` on, `count` of
\* them once the first 1 was met (seen), most significant first, with the
\* remainder left: <<digits, remainder, position of the last digit>>
RECURSIVE FractionDigits(_, _, _, _, _)
FractionDigits(r, q, pos, seen, count) ==
  IF count = 0 THEN <<<<>>, r, pos - 1>>
  ELSE LET bit == IF 2 * r >= q THEN 1 ELSE 0
           rest == FractionDigits(2 * r - bit * q, q, pos + 1,
                                  seen \/ bit = 1,
                                  IF seen \/ bit = 1 THEN count - 1 ELSE count)
       IN IF seen \/ bit = 1
          THEN <<<<bit>> \o rest[1], rest[2], rest[3]>>
          ELSE rest

Reverse(s) == [i \in 1..Len(s) |-> s[Len(s) + 1 - i]]

\* p / q for integers 0 < p < q, correctly rounded
DivDouble(p, q) ==
  LET d == FractionDigits(p, q, 1, FALSE, MantissaBits)
      low == Reverse(d[1])
      r == d[2]
      roundUp == 2 * r > q \/ (2 * r = q /\ low[1] = 1)
      up == Increment(low)
  IN IF ~roundUp THEN [bits |-> low, exp |-> -d[3]]
     ELSE IF Len(up) = MantissaBits THEN [bits |-> up, exp |-> -d[3]]
     ELSE [bits |-> Tail(up), exp |-> 1 - d[3]]

\* bits * n from bit i on, with the carry so far: exactly, as bits
RECURSIVE MulBits(_, _, _, _)
MulBits(bits, i, n, carry) ==
  IF i > Len(bits) THEN IntToBits(carry)
  ELSE <<(bits[i] * n + carry) % 2>>
       \o MulBits(bits, i + 1, n, (bits[i] * n + carry) \div 2)

\* n * d for an integer n >= 0 (exact as a double) and a double d
MulDouble(n, d) ==
  IF n = 0 \/ d = DoubleZero THEN DoubleZero
  ELSE RoundNearestEven(MulBits(d.bits, 1, n, 0), d.exp)

\* Math.ceil that loses the leading bit of the integer part
MathCeilDropsTopBit(d) ==
  IF d = DoubleZero THEN 0
  ELSE IF d.exp >= 0 THEN BitsToInt(d.bits) * Pow2(d.exp)
  ELSE LET f == IF -d.exp > MantissaBits THEN MantissaBits ELSE -d.exp
       IN BitsToInt(SubSeq(d.bits, f + 1, MantissaBits - 1))
          + (IF \E i \in 1..f : d.bits[i] = 1 THEN 1 ELSE 0)

\* Math.ceil of a non-negative double, as an integer
MathCeil(d) ==
  IF d = DoubleZero THEN 0
  ELSE IF d.exp >= 0 THEN BitsToInt(d.bits) * Pow2(d.exp)
  ELSE LET f == IF -d.exp > MantissaBits THEN MantissaBits ELSE -d.exp
       IN BitsToInt(SubSeq(d.bits, f + 1, MantissaBits))
          + (IF \E i \in 1..f : d.bits[i] = 1 THEN 1 ELSE 0)

---------------------------------------------------------------------------
(* lib/utils: calculateFee                                                 *)

\* FEE_PERCENT / 100
FeeRate == DivDouble(FEE_PERCENT, 100)

\* calculateFee without the minimum applied to the final fee
calculateFeeNoFloor(a) ==
  LET originalFee ==
        Max(MINIMUM_FEE_SATS, MathCeil(MulDouble(a, FeeRate)))
  IN MathCeil(MulDouble(a + originalFee, FeeRate))

\* calculateFee returning the fee on the amount alone
calculateFeeOnce(a) ==
  Max(MINIMUM_FEE_SATS, MathCeil(MulDouble(a, FeeRate)))

calculateFee(a) ==
  LET originalFee ==
        Max(MINIMUM_FEE_SATS, MathCeil(MulDouble(a, FeeRate)))
  IN Max(MINIMUM_FEE_SATS, MathCeil(MulDouble(a + originalFee, FeeRate)))

\* calculateFee is pure: its values on the amounts of the model
FeeTable == [a \in 0..MaxAmount |-> calculateFee(a)]

FeeIdle == amount = 0 /\ fee = 0 /\ prevAmount = 0 /\ prevFee = 0

TipsIdle ==
  /\ tips = <<>> /\ input = <<>> /\ limitedTips = <<>>
  /\ pc = "idle" /\ round = 0 /\ firstResult = <<>>

FormIdle ==
  /\ title = "" /\ isSubmitting = FALSE /\ inflight = <<>>
  /\ started = 0 /\ lastEvent = "none"

\* a caller computing fees: the last two calls are kept
InitFee ==
  /\ amount \in 0..MaxAmount
  /\ fee = FeeTable[amount]
  /\ prevAmount = amount
  /\ prevFee = fee
  /\ TipsIdle /\ FormIdle

CallFee(a) ==
  /\ prevAmount' = amount
  /\ prevFee' = fee
  /\ amount' = a
  /\ fee' = FeeTable[a]
  /\ UNCHANGED <<tipVars, formVars>>

NextFee ==
  \E a \in (amount - MaxStep)..(amount + MaxStep) :
     /\ a \in 0..MaxAmount
     /\ CallFee(a)

SpecFee == InitFee /\ [][NextFee]_vars

---------------------------------------------------------------------------
(* lib/utils: limitTips.  A tip is [id, amount]; only amount is read.      *)

Min(a, b) == IF a < b THEN a ELSE b

\* x put before the tips of the same amount: a sort that is not stable
RECURSIVE InsertBeforeEqual(_, _)
InsertBeforeEqual(x, s) ==
  IF s = <<>> THEN <<x>>
  ELSE IF Head(s).amount - x.amount <= 0 THEN <<x>> \o s
  ELSE <<Head(s)>> \o InsertBeforeEqual(x, Tail(s))

\* x put into s, sorted by amount descending, after the tips of the same amount
RECURSIVE InsertDesc(_, _)
InsertDesc(x, s) ==
  IF s = <<>> THEN <<x>>
  ELSE IF Head(s).amount - x.amount < 0 THEN <<x>> \o s
  ELSE <<Head(s)>> \o InsertDesc(x, Tail(s))

\* Array.prototype.sort((a, b) => b.amount - a.amount): stable, descending
RECURSIVE SortDesc(_)
SortDesc(s) ==
  IF s = <<>> THEN <<>>
  ELSE InsertDesc(s[Len(s)], SortDesc(SubSeq(s, 1, Len(s) - 1)))

\* slice taking one element too many
SliceOneMore(s, n) == SubSeq(s, 1, Min(n + 1, Len(s)))

\* Array.prototype.slice(0, n)
Slice(s, n) == SubSeq(s, 1, Min(n, Len(s)))

\* .map((tip) => tip.amount).reduce((a, b) => a + b, 0)
RECURSIVE SumAmounts(_)
SumAmounts(s) ==
  IF s = <<>> THEN 0 ELSE Head(s).amount + SumAmounts(Tail(s))

\* the loop trimming also when the total equals the cap
LoopCondAtCap(l) == SumAmounts(l) >= MAX_TIP_SATS

\* the condition of the while loop
LoopCond(l) == SumAmounts(l) > MAX_TIP_SATS

\* a pop that leaves the array as it is
PopKeepsAll(l) == l

\* Array.prototype.pop: the array without its last element (empty stays empty)
Pop(l) == IF l = <<>> THEN <<>> ELSE SubSeq(l, 1, Len(l) - 1)

MakeTips(f) == [i \in 1..Len(f) |-> [id |-> i, amount |-> f[i]]]

TipInputs(maxLen) ==
  {MakeTips(f) : f \in UNION {[1..n -> TipAmounts] : n \in 0..maxLen}}

CallWith(inputs) ==
  /\ tips \in inputs
  /\ input = tips
  /\ limitedTips = <<>>
  /\ pc = "call"
  /\ round = 1
  /\ firstResult = <<>>
  /\ FeeIdle /\ FormIdle

InitTips == CallWith(TipInputs(MaxTips))

\* the while loop: pop while the amounts sum to more than MAX_TIP_SATS
RECURSIVE Trim(_)
Trim(l) == IF LoopCond(l) THEN Trim(Pop(l)) ELSE l

\* the array limitTips returns
limitTips(t) == Trim(Slice(SortDesc(t), MAX_TIPS_WITHDRAWABLE))

\* a call of limitTips on the caller's array: sort works on the array
\* itself, so the caller's array is sorted when the call returns
CallLimitTips ==
  /\ pc = "call"
  /\ tips' = SortDesc(tips)
  /\ limitedTips' = limitTips(tips)
  /\ pc' = "done"
  /\ UNCHANGED <<input, round, firstResult, feeVars, formVars>>

\* the caller hands the array it got back to limitTips again
CallAgain ==
  /\ pc = "done"
  /\ round = 1
  /\ firstResult' = limitedTips
  /\ tips' = limitedTips
  /\ input' = limitedTips
  /\ round' = 2
  /\ pc' = "call"
  /\ UNCHANGED <<limitedTips, feeVars, formVars>>

NextTips == CallLimitTips \/ CallAgain

SpecTips == InitTips /\ [][NextTips]_vars

(* limitTips statement by statement, for its termination                   *)

\* tips.sort(...).slice(0, MAX_TIPS_WITHDRAWABLE)
SortSlice ==
  /\ pc = "call"
  /\ tips' = SortDesc(tips)
  /\ limitedTips' = Slice(tips', MAX_TIPS_WITHDRAWABLE)
  /\ pc' = "loop"
  /\ UNCHANGED <<input, round, firstResult, feeVars, formVars>>

\* one turn of the while loop
LoopPop ==
  /\ pc = "loop"
  /\ LoopCond(limitedTips)
  /\ limitedTips' = Pop(limitedTips)
  /\ UNCHANGED <<tips, input, pc, round, firstResult, feeVars, formVars>>

\* the loop ends and limitedTips is returned
Return ==
  /\ pc = "loop"
  /\ ~LoopCond(limitedTips)
  /\ pc' = "done"
  /\ UNCHANGED <<tips, input, limitedTips, round, firstResult, feeVars, formVars>>

NextTipsLive == SortSlice \/ LoopPop \/ Return

InitTipsLive == CallWith(TipInputs(MaxLiveTips))

\* limitTips is synchronous: once called it runs to its return
SpecTipsLive ==
  /\ InitTipsLive /\ [][NextTipsLive]_vars
  /\ WF_vars(SortSlice) /\ WF_vars(LoopPop) /\ WF_vars(Return)

---------------------------------------------------------------------------
(* components/LeaderboardForm: the submit handling                         *)

\* <Button type="submit" disabled={isSubmitting}>
ButtonEnabled == ~isSubmitting

RemoveAt(s, i) == SubSeq(s, 1, i - 1) \o SubSeq(s, i + 1, Len(s))

InitForm ==
  /\ title \in Titles
  /\ isSubmitting = FALSE
  /\ inflight = <<>>
  /\ started = 0
  /\ lastEvent = "none"
  /\ FeeIdle /\ TipsIdle

\* the user edits the title field
Type(t) ==
  /\ t # title
  /\ title' = t
  /\ lastEvent' = "type"
  /\ UNCHANGED <<isSubmitting, inflight, started, feeVars, tipVars>>

\* onSubmit that does not set isSubmitting
onSubmitNoFlag ==
  /\ isSubmitting' = isSubmitting
  /\ inflight' = Append(inflight, [title |-> title])

\* onSubmit(data): setSubmitting(true), then the onSubmit prop is called
\* with a copy of the form data and its promise awaited
onSubmit ==
  /\ isSubmitting' = TRUE
  /\ inflight' = Append(inflight, [title |-> title])

\* the form is submitted (the button is pressed, or Enter in the field,
\* which a disabled submit button blocks); no field has a validation rule
SubmitEvent ==
  /\ ButtonEnabled
  /\ started < MaxSubmits
  /\ onSubmit
  /\ started' = started + 1
  /\ lastEvent' = "submit"
  /\ UNCHANGED <<title, feeVars, tipVars>>

\* a pending call's promise resolves: setSubmitting(false)
Resolve(i) ==
  /\ inflight' = RemoveAt(inflight, i)
  /\ isSubmitting' = FALSE
  /\ lastEvent' = "resolve"
  /\ UNCHANGED <<title, started, feeVars, tipVars>>

\* a pending call's promise rejects: the await throws, setSubmitting(false)
\* is not reached
Reject(i) ==
  /\ inflight' = RemoveAt(inflight, i)
  /\ lastEvent' = "reject"
  /\ UNCHANGED <<title, isSubmitting, started, feeVars, tipVars>>

NextForm ==
  \/ \E t \in Titles : Type(t)
  \/ SubmitEvent
  \/ \E i \in 1..Len(inflight) : Resolve(i)
  \/ \E i \in 1..Len(inflight) : Reject(i)

SpecForm == InitForm /\ [][NextForm]_vars

---------------------------------------------------------------------------
(* Properties of calculateFee, under SpecFee                               *)

\* ceil(a / b) of the rationals, for a >= 0 and b > 0
CeilDiv(a, b) == (a + b - 1) \div b

\* C1: the returned fee is at least FEE_PERCENT percent of the amount plus
\* the returned fee, rounded up
FeeMeetsReserve ==
  fee >= CeilDiv((amount + fee) * FEE_PERCENT, 100)

\* C2: the fee is never below MINIMUM_FEE_SATS, and the fee on 0 is
\* MINIMUM_FEE_SATS
FeeAtLeastMinimum ==
  /\ fee >= MINIMUM_FEE_SATS
  /\ amount = 0 => fee = MINIMUM_FEE_SATS

FeeOnZero == amount = 0 /\ prevAmount = 1 /\ fee = MINIMUM_FEE_SATS

\* C3: of two calls, the one on the smaller amount returns the smaller or
\* the same fee
FeeMonotone ==
  /\ prevAmount <= amount => prevFee <= fee
  /\ amount <= prevAmount => fee <= prevFee

FeeRises == prevAmount < amount /\ prevFee < fee /\ prevFee > MINIMUM_FEE_SATS

\* C9: the fee is the percentage, rounded up and floored at the minimum, of
\* the amount plus the provisional fee, the provisional fee being the same
\* of the amount alone; 100 gives 2 and 1000 gives 11
FeeIsReappliedOnce ==
  LET p == Max(MINIMUM_FEE_SATS, CeilDiv(amount * FEE_PERCENT, 100))
  IN /\ fee = Max(MINIMUM_FEE_SATS, CeilDiv((amount + p) * FEE_PERCENT, 100))
     /\ amount = 100 => fee = 2
     /\ amount = 1000 => fee = 11

FeeOnThousand == amount = 1000 /\ fee = 11 /\ prevAmount = 999

---------------------------------------------------------------------------
(* Properties of limitTips, under SpecTips and SpecTipsLive                *)

Amounts(s) == [i \in 1..Len(s) |-> s[i].amount]

Ids(s) == {s[i].id : i \in 1..Len(s)}

Returned == pc = "done" /\ round = 1

\* C4: the returned tips are at most MAX_TIPS_WITHDRAWABLE and their amounts
\* sum to at most MAX_TIP_SATS
ResultWithinLimits ==
  pc = "done" =>
    /\ Len(limitedTips) <= MAX_TIPS_WITHDRAWABLE
    /\ SumAmounts(limitedTips) <= MAX_TIP_SATS

TrimmedByCountAndSum ==
  /\ Returned
  /\ Len(input) > MAX_TIPS_WITHDRAWABLE
  /\ Len(limitedTips) = 2
  /\ SumAmounts(limitedTips) = MAX_TIP_SATS

\* C5: the array passed to limitTips holds the same tips in the same order
\* once limitTips has worked on it
InputUnchanged == tips = input

\* C6: limitTips applied to what limitTips returned returns the same tips in
\* the same order
LimitTipsIdempotent ==
  (pc = "done" /\ round = 2) => limitedTips = firstResult

SecondCallOnTies ==
  /\ pc = "done" /\ round = 2
  /\ Len(firstResult) = 3
  /\ firstResult[2].amount = firstResult[3].amount
  /\ firstResult[1].id > firstResult[2].id

AllAboveCap(s) == \A i \in 1..Len(s) : s[i].amount > MAX_TIP_SATS

\* C7: every call of limitTips returns, the loop never pops an empty array,
\* and the result is empty when the input is empty or every tip alone is
\* above MAX_TIP_SATS
LimitTipsTerminates ==
  /\ (pc = "call") ~> (pc = "done")
  /\ [](pc = "loop" /\ LoopCond(limitedTips) => limitedTips # <<>>)
  /\ [](Returned /\ AllAboveCap(input) => limitedTips = <<>>)

AllDropped ==
  /\ Returned
  /\ Len(input) = 2
  /\ AllAboveCap(input)
  /\ limitedTips = <<>>

\* the largest amount among the tips of s that are not in l
MaxOmitted(s, l) ==
  LET left == {s[i].amount : i \in {j \in 1..Len(s) : s[j].id \notin Ids(l)}}
  IN CHOOSE m \in left : \A n \in left : n <= m

\* C8: the result is the longest run of the largest tips, at most
\* MAX_TIPS_WITHDRAWABLE of them, whose amounts sum to at most MAX_TIP_SATS:
\* the returned tips are tips of the input, largest first, no omitted tip is
\* larger than a returned one, and one more tip would pass a limit; the
\* amounts 500, 400, 300, 200 give 500, 400
ResultIsLongestPrefix ==
  Returned =>
    /\ \A i \in 1..Len(limitedTips) :
          \E j \in 1..Len(input) : limitedTips[i] = input[j]
    /\ Cardinality(Ids(limitedTips)) = Len(limitedTips)
    /\ \A i \in 1..Len(limitedTips) : \A j \in 1..Len(limitedTips) :
          i < j => limitedTips[i].amount >= limitedTips[j].amount
    /\ \A i \in 1..Len(limitedTips) : \A j \in 1..Len(input) :
          input[j].id \notin Ids(limitedTips)
             => input[j].amount <= limitedTips[i].amount
    /\ Len(limitedTips) <= MAX_TIPS_WITHDRAWABLE
    /\ SumAmounts(limitedTips) <= MAX_TIP_SATS
    /\ \/ Len(limitedTips) = Len(input)
       \/ Len(limitedTips) = MAX_TIPS_WITHDRAWABLE
       \/ SumAmounts(limitedTips) + MaxOmitted(input, limitedTips)
             > MAX_TIP_SATS
    /\ Amounts(input) = <<500, 400, 300, 200>>
          => Amounts(limitedTips) = <<500, 400>>

LargestTwoKept ==
  /\ Returned
  /\ Amounts(input) = <<200, 300, 500, 400>>
  /\ Amounts(limitedTips) = <<500, 400>>

---------------------------------------------------------------------------
(* Properties of LeaderboardForm, under SpecForm                           *)

\* C10: while a call of the onSubmit prop is pending isSubmitting is true,
\* isSubmitting goes back to false only in the step in which a pending call
\* resolves, and at most one call is pending at any time
SubmittingWhilePending ==
  /\ [](inflight # <<>> => isSubmitting)
  /\ [](Len(inflight) <= 1)
  /\ [][(isSubmitting /\ ~isSubmitting')
          => (lastEvent' = "resolve" /\ Len(inflight') < Len(inflight))]_vars

SecondSubmitPending ==
  /\ started = 2
  /\ isSubmitting
  /\ Len(inflight) = 1
  /\ lastEvent = "submit"

=============================================================================
